---- MODULE Spec2Model ----
(***************************************************************************)
(* Model of src/mobius.py: the `proc` and `knit` commands, and knit's      *)
(* nested `validate`.  Tables (pandas DataFrames) are records              *)
(*   [cols |-> sequence of column names, rows |-> sequence of rows],       *)
(* a row is a function from column name to cell, and a cell is <<>> for a  *)
(* missing value (NaN) or <<v>> for the value v.  Floats are counted in    *)
(* tenths (12.4 is 124), headline texts are sequences of characters.       *)
(***************************************************************************)
EXTENDS Integers, Sequences, FiniteSets, TLC

\* ------------------------------------------------------------------ bounds
MaxPoints == 3      \* path points in one chart document, over all its charts

\* ------------------------------------------------------------------- cells
NaN == <<>>
Some(v) == <<v>>
IsNaN(c) == c = <<>>
Val(c) == c[1]

\* ------------------------------------------------------------ generic seqs
RECURSIVE Flatten(_)
Flatten(ss) == IF ss = <<>> THEN <<>> ELSE Head(ss) \o Flatten(Tail(ss))

Range(s) == {s[i] : i \in 1..Len(s)}

\* ---------------------------------------------------------- headline texts
Percent == "%"
Sentinel == <<"N","o","t"," ","e","n","o","u","g","h"," ","d","a","t","a">>
TextNotEnough == Sentinel \o <<" ","f","o","r"," ","t","h","i","s"," ","d","a","t","e">>
TextZero == <<"0","%">>
TextTwelve == <<"+","1","2","%">>
HeadlineTexts == {TextZero, TextTwelve, TextNotEnough}

Digits == {"0","1","2","3","4","5","6","7","8","9"}
DigitVal(c) ==
    CASE c = "0" -> 0 [] c = "1" -> 1 [] c = "2" -> 2 [] c = "3" -> 3
      [] c = "4" -> 4 [] c = "5" -> 5 [] c = "6" -> 6 [] c = "7" -> 7
      [] c = "8" -> 8 [] c = "9" -> 9

\* Series.str.replace("%", "", regex=False) on one cell
str_replace(c) ==
    IF IsNaN(c) THEN NaN ELSE Some(SelectSeq(Val(c), LAMBDA ch : ch # Percent))

\* Series.str.contains("Not enough data", regex=False) on one cell: NaN stays NaN
str_contains(c) ==
    IF IsNaN(c) THEN NaN
    ELSE Some(\E i \in 1..(Len(Val(c)) - Len(Sentinel) + 1) :
                 SubSeq(Val(c), i, i + Len(Sentinel) - 1) = Sentinel)

RECURSIVE ParseDigits(_)
ParseDigits(s) ==
    IF s = <<>> THEN 0
    ELSE 10 * ParseDigits(SubSeq(s, 1, Len(s) - 1)) + DigitVal(s[Len(s)])

Unsigned(s) == IF s # <<>> /\ s[1] \in {"+", "-"} THEN Tail(s) ELSE s

\* float(text) succeeds on an optionally signed run of digits
IsFloatText(s) == Unsigned(s) # <<>> /\ \A i \in 1..Len(Unsigned(s)) : Unsigned(s)[i] \in Digits

\* float(text), in tenths
ParseFloat(s) ==
    IF s[1] = "-" THEN 0 - 10 * ParseDigits(Unsigned(s)) ELSE 10 * ParseDigits(Unsigned(s))

\* Series.astype(float) on one cell
astype_float(c) == IF IsNaN(c) THEN NaN ELSE Some(ParseFloat(Val(c)))

\* Series.round() on one float (tenths): to the nearest integer, a tie to the even one
Round(v) ==
    LET q == v \div 10
        r == v % 10
    IN  IF r < 5 THEN 10 * q
        ELSE IF r > 5 THEN 10 * (q + 1)
        ELSE IF q % 2 = 0 THEN 10 * q ELSE 10 * (q + 1)

\* ------------------------------------------------------------------ tables
HeadlineCols == <<"country", "region", "plot_name", "page_num", "plot_num", "headline">>
MetadataCols == <<"country", "region", "plot_name">>
PointCols == <<"graph_num", "date", "value", "asterisk">>
FinalCols ==
    <<"country", "region", "plot_name", "page_num", "plot_num",
      "asterisk", "date", "value", "headline">>
ReportCols == <<"country", "region", "plot_name", "value", "headline">>

Country == "GB"
Region == "Greater London"
PlotNames == {"Retail & recreation", "Parks"}
FirstPlotName == "Retail & recreation"
ChartIndex == {1, 2}
Pixels == {1, 2}
Values == {NaN, Some(124), Some(126)}

\* dates_file: pixel column -> calendar date (a day number), increasing in both
FirstDay == 46
DatesFile == [x \in Pixels |-> FirstDay + x]

\* the rows of table t having value k in column c, in t's order
RowsWithKey(t, c, k) == SelectSeq(t.rows, LAMBDA r : r[c] = Some(k))

\* the (region, plot_name) group of a row
Group(r) == <<r["region"], r["plot_name"]>>

\* DataFrame.to_csv(outfile, index=False): a header line, then each row's cells
\* in column order
to_csv(t) ==
    [header |-> t.cols,
     lines |-> [i \in 1..Len(t.rows) |-> [j \in 1..Len(t.cols) |-> t.rows[i][t.cols[j]]]]]

NoFile == [header |-> <<>>, lines |-> <<>>]

\* --------------------------------------------------------- text.summarise
\* A headline table: at most one row per plot number, rows in plot order.
HeadlineRow(name, num, text) ==
    [country |-> Some(Country), region |-> Some(Region), plot_name |-> Some(name),
     page_num |-> Some(1), plot_num |-> Some(num), headline |-> Some(text)]

HeadlineRowSeqs ==
    UNION {
      { rows \in [1..n -> {HeadlineRow(name, num, text) :
                             name \in PlotNames, num \in ChartIndex, text \in HeadlineTexts}] :
          /\ \A i, j \in 1..n : i < j => Val(rows[i]["plot_num"]) < Val(rows[j]["plot_num"])
          /\ n > 0 => rows[1]["plot_name"] = Some(FirstPlotName) }
      : n \in 0..Cardinality(ChartIndex) }

summarise(rows) == [cols |-> HeadlineCols, rows |-> rows]

\* ----------------------------------------------------------- graph_process
\* A chart's path geometry: one point per drawn pixel column, left to right.
Paths ==
    UNION {
      { p \in [1..n -> [x : Pixels, y : Values]] :
          \A i, j \in 1..n : i < j => p[i].x < p[j].x }
      : n \in 0..Cardinality(Pixels) }

RECURSIVE TotalPoints(_)
TotalPoints(m) == IF m = <<>> THEN 0 ELSE Len(Head(m).paths) + TotalPoints(Tail(m))

\* The mapping chart_index -> paths, as the sequence of its items in iteration order.
ChartMappings ==
    UNION {
      { m \in [1..n -> [num : ChartIndex, paths : Paths]] :
          /\ \A i, j \in 1..n : i # j => m[i].num # m[j].num
          /\ TotalPoints(m) <= MaxPoints }
      : n \in 0..Cardinality(ChartIndex) }

\* ------------------------------------------------------------- csv_process
SeriesCols(metadata) == IF metadata THEN MetadataCols \o PointCols ELSE PointCols

SeriesRow(metadata, num, point, lookup) ==
    LET base == [graph_num |-> Some(num), date |-> Some(lookup[point.x]),
                 value |-> point.y, asterisk |-> Some(IsNaN(point.y))]
    IN  IF metadata
        THEN [c \in Range(SeriesCols(TRUE)) |->
                CASE c = "country" -> Some(Country)
                  [] c = "region" -> Some(Region)
                  [] c = "plot_name" -> Some(FirstPlotName)
                  [] OTHER -> base[c]]
        ELSE base

csv_process(metadata, paths, num, lookup) ==
    [cols |-> SeriesCols(metadata),
     rows |-> [i \in 1..Len(paths) |-> SeriesRow(metadata, num, paths[i], lookup)]]

\* ---------------------------------------------------------------- pd.concat
\* Mutant of pd_concat: the frames taken last to first.
pd_concat_reversed(dfs) ==
    [cols |-> dfs[1].cols,
     rows |-> Flatten([i \in 1..Len(dfs) |-> dfs[Len(dfs) + 1 - i].rows])]

\* pd.concat(dfs): the frames' rows one frame after the other; an empty list raises
concat_raises(dfs) == dfs = <<>>

pd_concat(dfs) ==
    [cols |-> dfs[1].cols, rows |-> Flatten([i \in 1..Len(dfs) |-> dfs[i].rows])]

\* ----------------------------------------------------------------- pd.merge
\* Mutant of MergedName: a shared column keeps its name on both sides.
UnsuffixedName(c, otherCols, suffix) == c

\* A column of one frame that the other frame has too gets the frame's suffix.
MergedName(c, otherCols, suffix) == IF c \in Range(otherCols) THEN c \o suffix ELSE c

MergedCols(left, right) ==
    [i \in 1..Len(left.cols) |-> MergedName(left.cols[i], right.cols, "_x")]
      \o [i \in 1..Len(right.cols) |-> MergedName(right.cols[i], left.cols, "_y")]

\* One merged row from a left and a right row; Absent stands for the missing side.
Absent == [none |-> TRUE]

JoinRow(left, right, l, r) ==
    [c \in Range(MergedCols(left, right)) |->
        IF \E i \in 1..Len(left.cols) : MergedName(left.cols[i], right.cols, "_x") = c
        THEN IF l = Absent THEN NaN
             ELSE l[CHOOSE d \in Range(left.cols) : MergedName(d, right.cols, "_x") = c]
        ELSE IF r = Absent THEN NaN
             ELSE r[CHOOSE d \in Range(right.cols) : MergedName(d, left.cols, "_y") = c]]

\* Mutant of OuterRowsOfKey: how="inner", the unmatched rows of either side are dropped.
InnerRowsOfKey(left, right, left_on, right_on, k) ==
    LET L == RowsWithKey(left, left_on, k)
        R == RowsWithKey(right, right_on, k)
    IN  Flatten([i \in 1..Len(L) |-> [j \in 1..Len(R) |-> JoinRow(left, right, L[i], R[j])]])

\* The merged rows of one key: the matches left-major, or the unmatched rows of
\* the one side with the other side's fields missing (how="outer").
OuterRowsOfKey(left, right, left_on, right_on, k) ==
    LET L == RowsWithKey(left, left_on, k)
        R == RowsWithKey(right, right_on, k)
    IN  IF L # <<>> /\ R # <<>>
        THEN Flatten([i \in 1..Len(L) |-> [j \in 1..Len(R) |-> JoinRow(left, right, L[i], R[j])]])
        ELSE IF L # <<>>
        THEN [i \in 1..Len(L) |-> JoinRow(left, right, L[i], Absent)]
        ELSE [j \in 1..Len(R) |-> JoinRow(left, right, Absent, R[j])]

JoinKeys(left, right, left_on, right_on) ==
    {Val(left.rows[i][left_on]) : i \in 1..Len(left.rows)}
      \cup {Val(right.rows[j][right_on]) : j \in 1..Len(right.rows)}

\* The keys of a set in increasing order (an outer merge sorts the join keys).
RECURSIVE SortedKeys(_)
SortedKeys(keys) ==
    IF keys = {} THEN <<>>
    ELSE LET m == CHOOSE k \in keys : \A o \in keys : k <= o
         IN  <<m>> \o SortedKeys(keys \ {m})

MergeRows(left, right, left_on, right_on) ==
    LET ks == SortedKeys(JoinKeys(left, right, left_on, right_on))
    IN  Flatten([n \in 1..Len(ks) |-> OuterRowsOfKey(left, right, left_on, right_on, ks[n])])

\* pd.merge(left, right, left_on=..., right_on=..., how="outer")
pd_merge(left, right, left_on, right_on) ==
    [cols |-> MergedCols(left, right), rows |-> MergeRows(left, right, left_on, right_on)]

\* ------------------------------------------------------------ df[[columns]]
\* Selecting a list of columns raises KeyError when one of them is no column.
select_raises(t, cols) == \E i \in 1..Len(cols) : cols[i] \notin Range(t.cols)

select(t, cols) ==
    [cols |-> cols,
     rows |-> [i \in 1..Len(t.rows) |-> [c \in Range(cols) |-> t.rows[i][c]]]]

\* ----------------------------------------------------------- knit.validate
SetHeadline(t, h) ==
    [t EXCEPT !.rows = [i \in 1..Len(t.rows) |-> [t.rows[i] EXCEPT !["headline"] = h[i]]]]

\* line 140: df.headline = df.headline.str.replace("%", "", regex=False)
StripPercent(t) == SetHeadline(t, [i \in 1..Len(t.rows) |-> str_replace(t.rows[i]["headline"])])

\* line 141: the boolean mask, and indexing with it, which raises ValueError when
\* the mask holds a missing value
SentinelMask(t) == [i \in 1..Len(t.rows) |-> str_contains(t.rows[i]["headline"])]

mask_raises(t) == \E i \in 1..Len(t.rows) : IsNaN(SentinelMask(t)[i])

\* Mutant of SentinelValue: the sentinel becomes the number zero.
SentinelZero(h) == Some(<<"0">>)

\* line 141: the value a headline takes where the mask is set
SentinelValue(h) == NaN

NormalizeSentinel(t) ==
    SetHeadline(t, [i \in 1..Len(t.rows) |->
        IF Val(SentinelMask(t)[i]) THEN SentinelValue(t.rows[i]["headline"])
        ELSE t.rows[i]["headline"]])

\* line 142: df.headline = df.headline.astype(float), ValueError on a text that
\* is no number
astype_raises(t) ==
    \E i \in 1..Len(t.rows) :
        ~IsNaN(t.rows[i]["headline"]) /\ ~IsFloatText(Val(t.rows[i]["headline"]))

HeadlineAsFloat(t) ==
    SetHeadline(t, [i \in 1..Len(t.rows) |-> astype_float(t.rows[i]["headline"])])

\* Mutant of dropna: dropna(subset=["value"]), only a missing value drops a row.
dropna_value(t) == [t EXCEPT !.rows = SelectSeq(t.rows, LAMBDA r : ~IsNaN(r["value"]))]

\* line 143: df.dropna() keeps the rows with no missing cell at all
dropna(t) ==
    [t EXCEPT !.rows = SelectSeq(t.rows, LAMBDA r : \A c \in Range(t.cols) : ~IsNaN(r[c]))]

\* Mutant of TailOne: .head(1), each group's first row in table order.
RECURSIVE HeadOne(_)
HeadOne(rows) ==
    IF rows = <<>> THEN <<>>
    ELSE IF \E j \in 1..(Len(rows) - 1) : Group(rows[j]) = Group(rows[Len(rows)])
         THEN HeadOne(SubSeq(rows, 1, Len(rows) - 1))
         ELSE HeadOne(SubSeq(rows, 1, Len(rows) - 1)) \o <<rows[Len(rows)]>>

\* line 143: .groupby(by=["region", "plot_name"]).tail(1) keeps each group's last
\* row in table order
RECURSIVE TailOne(_)
TailOne(rows) ==
    IF rows = <<>> THEN <<>>
    ELSE IF \E j \in 2..Len(rows) : Group(rows[j]) = Group(rows[1])
         THEN TailOne(Tail(rows))
         ELSE <<rows[1]>> \o TailOne(Tail(rows))

LastEntries(t) == [t EXCEPT !.rows = TailOne(dropna(t).rows)]

\* line 147: last_entries[last_entries.value.round() != last_entries.headline];
\* a missing number is unequal to every number
Mismatch(r) ==
    IF IsNaN(r["value"]) \/ IsNaN(r["headline"]) THEN TRUE
    ELSE Round(Val(r["value"])) # Val(r["headline"])

invalid_df(t) == [t EXCEPT !.rows = SelectSeq(LastEntries(t).rows, Mismatch)]

\* lines 139-152: what validate leaves: the frame as mutated in place, whether it
\* raised, its last_entries and the printed report
validate(df) ==
    LET d1 == StripPercent(df)
    IN  IF mask_raises(d1)
        THEN [df |-> d1, raised |-> "ValueError: mask", last |-> NaN, report |-> NaN]
        ELSE LET d2 == NormalizeSentinel(d1)
             IN  IF astype_raises(d2)
                 THEN [df |-> d2, raised |-> "ValueError: float", last |-> NaN, report |-> NaN]
                 ELSE LET d3 == HeadlineAsFloat(d2)
                      IN  [df |-> d3, raised |-> "", last |-> Some(LastEntries(d3)),
                           report |-> Some(select(invalid_df(d3), ReportCols))]

\* ------------------------------------------------------------------- state
VARIABLES
    cmd,             \* the command run: "proc" or "knit"
    metadata,        \* whether csv_process's tables carry country, region, plot_name
    pc,              \* the line the run is at
    error,           \* the exception that aborted the run, "" when none
    summary_df,      \* knit: text.summarise's table
    data,            \* graph_process's mapping, as its items in iteration order
    date_lookup_df,  \* the date lookup table, <<>> until read
    loads,           \* how often the date lookup file was read
    calls,           \* the csv_process calls made: chart index and lookup table passed
    dfs,             \* the tables csv_process returned, in call order
    plot_df,         \* knit: the series table
    result_df,       \* knit: the merged, then projected, then validated table
    summary_file,    \* knit: the written headline summary file
    final_file,      \* knit: the written reconciled file
    last_entries,    \* knit: validate's last_entries, <<>> until computed
    report           \* knit: validate's printed mismatch report, <<>> until printed

vars ==
    <<cmd, metadata, pc, error, summary_df, data, date_lookup_df, loads, calls, dfs,
      plot_df, result_df, summary_file, final_file, last_entries, report>>

NoTable == [cols |-> <<>>, rows |-> <<>>]

Init ==
    /\ cmd \in {"proc", "knit"}
    /\ metadata \in BOOLEAN
    /\ pc = "start"
    /\ error = ""
    /\ summary_df = NoTable
    /\ data = <<>>
    /\ date_lookup_df = <<>>
    /\ loads = 0
    /\ calls = <<>>
    /\ dfs = <<>>
    /\ plot_df = NoTable
    /\ result_df = NoTable
    /\ summary_file = NoFile
    /\ final_file = NoFile
    /\ last_entries = NaN
    /\ report = NaN

Abort(e) == pc' = "aborted" /\ error' = e

\* Mutant of NextItem: the comprehension passes the first item every time.
NextItemFirst == data[1]

\* The item the comprehension passes to csv_process next: the items of the
\* mapping in iteration order, one per call.
NextItem == data[Len(dfs) + 1]

\* One csv_process call of the list comprehension (proc 127-130, knit 165-168).
CallCsvProcess ==
    /\ Len(dfs) < Len(data)
    /\ calls' = Append(calls, [num |-> NextItem.num, lookup |-> date_lookup_df])
    /\ dfs' = Append(dfs, csv_process(metadata, NextItem.paths, NextItem.num, date_lookup_df))

\* pd.read_csv(dates_file)
ReadDatesFile ==
    /\ date_lookup_df' = DatesFile
    /\ loads' = loads + 1

\* ------------------------------------------------------------------- proc
\* line 120
ProcReadDates ==
    /\ cmd = "proc" /\ pc = "start"
    /\ ReadDatesFile
    /\ pc' = "graph_process"
    /\ UNCHANGED <<cmd, metadata, error, summary_df, data, calls, dfs, plot_df, result_df,
                   summary_file, final_file, last_entries, report>>

\* lines 123-124; an unreadable chart document raises
ProcGraphProcess ==
    /\ cmd = "proc" /\ pc = "graph_process"
    /\ \E m \in ChartMappings : data' = m
    /\ pc' = "csv_process"
    /\ UNCHANGED <<cmd, metadata, error, summary_df, date_lookup_df, loads, calls, dfs,
                   plot_df, result_df, summary_file, final_file, last_entries, report>>

ProcGraphProcessRaises ==
    /\ cmd = "proc" /\ pc = "graph_process"
    /\ Abort("graph_process")
    /\ UNCHANGED <<cmd, metadata, summary_df, data, date_lookup_df, loads, calls, dfs,
                   plot_df, result_df, summary_file, final_file, last_entries, report>>

\* lines 126-130, one item of the comprehension
ProcCsvProcess ==
    /\ cmd = "proc" /\ pc = "csv_process"
    /\ CallCsvProcess
    /\ UNCHANGED <<cmd, metadata, pc, error, summary_df, data, date_lookup_df, loads,
                   plot_df, result_df, summary_file, final_file, last_entries, report>>

\* line 127: the list is returned once every item was processed
ProcReturn ==
    /\ cmd = "proc" /\ pc = "csv_process"
    /\ Len(dfs) = Len(data)
    /\ pc' = "done"
    /\ UNCHANGED <<cmd, metadata, error, summary_df, data, date_lookup_df, loads, calls,
                   dfs, plot_df, result_df, summary_file, final_file, last_entries, report>>

\* ------------------------------------------------------------------- knit
\* line 155: text.summarise(input_pdf); an unreadable document raises
KnitSummarise ==
    /\ cmd = "knit" /\ pc = "start"
    /\ \E rows \in HeadlineRowSeqs : summary_df' = summarise(rows)
    /\ pc' = "write_summary"
    /\ UNCHANGED <<cmd, metadata, error, data, date_lookup_df, loads, calls, dfs, plot_df,
                   result_df, summary_file, final_file, last_entries, report>>

KnitSummariseRaises ==
    /\ cmd = "knit" /\ pc = "start"
    /\ Abort("summarise")
    /\ UNCHANGED <<cmd, metadata, summary_df, data, date_lookup_df, loads, calls, dfs,
                   plot_df, result_df, summary_file, final_file, last_entries, report>>

\* lines 157-158: summary_df.to_csv(outfile, index=False)
KnitWriteSummary ==
    /\ cmd = "knit" /\ pc = "write_summary"
    /\ summary_file' = to_csv(summary_df)
    /\ pc' = "graph_process"
    /\ UNCHANGED <<cmd, metadata, error, summary_df, data, date_lookup_df, loads, calls,
                   dfs, plot_df, result_df, final_file, last_entries, report>>

\* line 160: graph_process(input_svg, None, False); an unreadable document raises
KnitGraphProcess ==
    /\ cmd = "knit" /\ pc = "graph_process"
    /\ \E m \in ChartMappings : data' = m
    /\ pc' = "read_dates"
    /\ UNCHANGED <<cmd, metadata, error, summary_df, date_lookup_df, loads, calls, dfs,
                   plot_df, result_df, summary_file, final_file, last_entries, report>>

KnitGraphProcessRaises ==
    /\ cmd = "knit" /\ pc = "graph_process"
    /\ Abort("graph_process")
    /\ UNCHANGED <<cmd, metadata, summary_df, data, date_lookup_df, loads, calls, dfs,
                   plot_df, result_df, summary_file, final_file, last_entries, report>>

\* line 162
KnitReadDates ==
    /\ cmd = "knit" /\ pc = "read_dates"
    /\ ReadDatesFile
    /\ pc' = "csv_process"
    /\ UNCHANGED <<cmd, metadata, error, summary_df, data, calls, dfs, plot_df, result_df,
                   summary_file, final_file, last_entries, report>>

\* lines 164-168, one item of the comprehension
KnitCsvProcess ==
    /\ cmd = "knit" /\ pc = "csv_process"
    /\ CallCsvProcess
    /\ UNCHANGED <<cmd, metadata, pc, error, summary_df, data, date_lookup_df, loads,
                   plot_df, result_df, summary_file, final_file, last_entries, report>>

\* line 170: plot_df = pd.concat(dfs), once every item was processed
KnitConcat ==
    /\ cmd = "knit" /\ pc = "csv_process"
    /\ Len(dfs) = Len(data)
    /\ IF concat_raises(dfs)
       THEN Abort("ValueError: No objects to concatenate") /\ UNCHANGED plot_df
       ELSE plot_df' = pd_concat(dfs) /\ pc' = "merge" /\ UNCHANGED error
    /\ UNCHANGED <<cmd, metadata, summary_df, data, date_lookup_df, loads, calls, dfs,
                   result_df, summary_file, final_file, last_entries, report>>

\* line 172
KnitMerge ==
    /\ cmd = "knit" /\ pc = "merge"
    /\ result_df' = pd_merge(summary_df, plot_df, "plot_num", "graph_num")
    /\ pc' = "select"
    /\ UNCHANGED <<cmd, metadata, error, summary_df, data, date_lookup_df, loads, calls,
                   dfs, plot_df, summary_file, final_file, last_entries, report>>

\* lines 175-185: result_df = result_df[[...]]
KnitSelect ==
    /\ cmd = "knit" /\ pc = "select"
    /\ IF select_raises(result_df, FinalCols)
       THEN Abort("KeyError") /\ UNCHANGED result_df
       ELSE result_df' = select(result_df, FinalCols) /\ pc' = "write_final" /\ UNCHANGED error
    /\ UNCHANGED <<cmd, metadata, summary_df, data, date_lookup_df, loads, calls, dfs,
                   plot_df, summary_file, final_file, last_entries, report>>

\* Mutant of KnitWriteFinal: validate is called without the table being written first.
KnitWriteFinalSkipped ==
    /\ cmd = "knit" /\ pc = "write_final"
    /\ pc' = "validate"
    /\ UNCHANGED <<cmd, metadata, error, summary_df, data, date_lookup_df, loads, calls,
                   dfs, plot_df, result_df, summary_file, final_file, last_entries, report>>

\* line 187: result_df.to_csv(final_outfile, index=False)
KnitWriteFinal ==
    /\ cmd = "knit" /\ pc = "write_final"
    /\ final_file' = to_csv(result_df)
    /\ pc' = "validate"
    /\ UNCHANGED <<cmd, metadata, error, summary_df, data, date_lookup_df, loads, calls,
                   dfs, plot_df, result_df, summary_file, last_entries, report>>

\* line 189: validate(result_df), which changes result_df in place
KnitValidate ==
    /\ cmd = "knit" /\ pc = "validate"
    /\ LET v == validate(result_df)
       IN  /\ result_df' = v.df
           /\ last_entries' = v.last
           /\ report' = v.report
           /\ IF v.raised # "" THEN Abort(v.raised) ELSE pc' = "done" /\ UNCHANGED error
    /\ UNCHANGED <<cmd, metadata, summary_df, data, date_lookup_df, loads, calls, dfs,
                   plot_df, summary_file, final_file>>

Next ==
    \/ ProcReadDates
    \/ ProcGraphProcess
    \/ ProcGraphProcessRaises
    \/ ProcCsvProcess
    \/ ProcReturn
    \/ KnitSummarise
    \/ KnitSummariseRaises
    \/ KnitWriteSummary
    \/ KnitGraphProcess
    \/ KnitGraphProcessRaises
    \/ KnitReadDates
    \/ KnitCsvProcess
    \/ KnitConcat
    \/ KnitMerge
    \/ KnitSelect
    \/ KnitWriteFinal
    \/ KnitValidate

Spec == Init /\ [][Next]_vars

\* ================================================================== claims
ColumnOf(cols, name) == CHOOSE j \in 1..Len(cols) : cols[j] = name
HeadlineColumn == ColumnOf(FinalCols, "headline")
ValidateErrors == {"ValueError: mask", "ValueError: float"}
Ran(t) == Range(t.rows)

\* ---------------------------------------------------------------------- C3
\* C3: when validate has run to its end, every headline whose written text holds
\* the "Not enough data" sentinel is a missing value in the validated table and
\* not zero or any other number, the text "0%" is the number 0 and "+12%" the
\* number 12, and every row of the mismatch report rests on a merged row whose
\* headline text was a percentage equal to the reported headline: no row with a
\* sentinel headline is compared as if its headline were 0.
C3_SentinelIsMissingNotZero ==
    (cmd = "knit" /\ pc = "done") =>
        /\ \A i \in 1..Len(result_df.rows) :
              LET raw == final_file.lines[i][HeadlineColumn]
                  h == result_df.rows[i]["headline"]
              IN  /\ raw = Some(TextNotEnough) => IsNaN(h)
                  /\ raw = Some(TextZero) => h = Some(0)
                  /\ raw = Some(TextTwelve) => h = Some(120)
        /\ \A q \in Ran(Val(report)) :
              \E i \in 1..Len(result_df.rows) :
                 /\ \A c \in Range(ReportCols) : result_df.rows[i][c] = q[c]
                 /\ final_file.lines[i][HeadlineColumn] \in {Some(TextZero), Some(TextTwelve)}
                 /\ q["headline"] \in {Some(0), Some(120)}

\* A validated table with a sentinel headline on a row that has a value, and a
\* "0%" headline on another.
C3_Witness ==
    /\ cmd = "knit" /\ pc = "done"
    /\ \E i, j \in 1..Len(result_df.rows) :
          /\ final_file.lines[i][HeadlineColumn] = Some(TextNotEnough)
          /\ ~IsNaN(result_df.rows[i]["value"])
          /\ final_file.lines[j][HeadlineColumn] = Some(TextZero)
          /\ ~IsNaN(result_df.rows[j]["value"])

\* ---------------------------------------------------------------------- C4
LeftPart(r) == [c \in Range(summary_df.cols) |-> r[MergedName(c, plot_df.cols, "_x")]]
RightPart(r) == [c \in Range(plot_df.cols) |-> r[MergedName(c, summary_df.cols, "_y")]]
AllMissing(part) == \A c \in DOMAIN part : IsNaN(part[c])
HasChart(h) == \E s \in Ran(plot_df) : s["graph_num"] = h["plot_num"]
HasHeadline(s) == \E h \in Ran(summary_df) : h["plot_num"] = s["graph_num"]

\* C4: the merged table holds every headline row and every series row: a headline
\* row whose plot_num is no series graph_num is there with all series-side fields
\* missing, a series row whose graph_num is no headline plot_num is there with all
\* headline-side fields missing, and matched rows are there joined to their matches.
C4_OuterJoinTotal ==
    (cmd = "knit" /\ pc = "select") =>
        /\ \A h \in Ran(summary_df) :
              \E r \in Ran(result_df) :
                 /\ LeftPart(r) = h
                 /\ IF HasChart(h) THEN RightPart(r) \in Ran(plot_df)
                    ELSE AllMissing(RightPart(r))
        /\ \A s \in Ran(plot_df) :
              \E r \in Ran(result_df) :
                 /\ RightPart(r) = s
                 /\ IF HasHeadline(s) THEN LeftPart(r) \in Ran(summary_df)
                    ELSE AllMissing(LeftPart(r))

\* A merge of a headline row with no chart and a series row with no headline.
C4_Witness ==
    /\ cmd = "knit" /\ pc = "select"
    /\ \E h \in Ran(summary_df) : ~HasChart(h)
    /\ \E s \in Ran(plot_df) : ~HasHeadline(s)

\* ---------------------------------------------------------------------- C9
AfterLoop == {"merge", "select", "write_final", "validate", "done"}

\* C9: in proc and in knit the date lookup file is read at most once, it has been
\* read once before the first csv_process call, every call is passed the table as
\* read, and the calls are passed the mapping's chart indexes in its iteration
\* order, each once, all of them by the time the loop is left.
C9_LookupOnceChartsInOrder ==
    /\ loads <= 1
    /\ calls # <<>> => loads = 1
    /\ loads = 1 => date_lookup_df = DatesFile
    /\ Len(calls) <= Len(data)
    /\ \A i \in 1..Len(calls) : calls[i].lookup = DatesFile /\ calls[i].num = data[i].num
    /\ \A i, j \in 1..Len(calls) : i # j => calls[i].num # calls[j].num
    /\ pc \in AfterLoop => Len(calls) = Len(data)

\* A finished loop over two charts.
C9_Witness == pc \in AfterLoop /\ Len(calls) = 2 /\ loads = 1

\* --------------------------------------------------------------------- C10
PastSummary ==
    {"graph_process", "read_dates", "csv_process", "merge", "select", "write_final",
     "validate", "done"}
RawHeadlines == {NaN} \cup {Some(t) : t \in HeadlineTexts}

\* C10: in knit the summary file is written before the chart document is
\* processed and the reconciled file before validate runs: a run aborted by
\* graph_process has the summary file and no reconciled file, a run aborted
\* inside validate (or ended by it) has both, and the headlines in both files are
\* the texts as extracted, never validate's normalized values.
C10_WriteOrder ==
    cmd = "knit" =>
        /\ (pc \in PastSummary \/ data # <<>>) => summary_file = to_csv(summary_df)
        /\ pc \in {"validate", "done"} => final_file.header = FinalCols
        /\ (pc = "aborted" /\ error = "graph_process") =>
              summary_file.header = HeadlineCols /\ final_file = NoFile
        /\ (pc = "aborted" /\ error \in ValidateErrors) =>
              summary_file.header = HeadlineCols /\ final_file.header = FinalCols
        /\ (pc = "aborted" /\ error \notin ValidateErrors) => final_file = NoFile
        /\ \A i \in 1..Len(summary_file.lines) : summary_file.lines[i][ColumnOf(HeadlineCols, "headline")] \in RawHeadlines \ {NaN}
        /\ \A i \in 1..Len(final_file.lines) : final_file.lines[i][HeadlineColumn] \in RawHeadlines
        /\ pc \in {"done", "aborted"} /\ final_file # NoFile =>
              /\ Len(final_file.lines) = Len(result_df.rows)
              /\ \A i \in 1..Len(result_df.rows) :
                    \A j \in 1..Len(FinalCols) :
                       FinalCols[j] # "headline" =>
                          final_file.lines[i][j] = result_df.rows[i][FinalCols[j]]

\* validate has normalized a sentinel headline in place and the written file
\* still holds its text.
C10_Witness ==
    /\ cmd = "knit" /\ pc = "done"
    /\ \E i \in 1..Len(result_df.rows) :
          /\ IsNaN(result_df.rows[i]["headline"])
          /\ final_file.lines[i][HeadlineColumn] = Some(TextNotEnough)

\* ----------------------------------------------------------------- C1, C2
Validated == cmd = "knit" /\ pc = "done"
RowIds == 1..Len(result_df.rows)
AllGroups == {Group(r) : r \in Ran(result_df)}
RowsOf(g) == {i \in RowIds : Group(result_df.rows[i]) = g}

\* the rows of group g whose value is not missing
ValuedRows(g) == {i \in RowsOf(g) : ~IsNaN(result_df.rows[i]["value"])}

\* the groups with at least one non-missing value
ValuedGroups == {g \in AllGroups : ValuedRows(g) # {}}

\* the chronologically last of a group's rows with a value
Latest(g) ==
    {i \in ValuedRows(g) :
        \A k \in ValuedRows(g) : Val(result_df.rows[k]["date"]) <= Val(result_df.rows[i]["date"])}

\* the rows of group g with no missing field at all, and the last of them in
\* table order
CompleteRows(g) == {i \in RowsOf(g) : \A c \in Range(FinalCols) : ~IsNaN(result_df.rows[i][c])}
LastComplete(g) == CHOOSE i \in CompleteRows(g) : \A k \in CompleteRows(g) : k <= i

\* a group all of whose rows have a numeric headline, and one drawn from one chart
NumericGroup(g) == \A i \in RowsOf(g) : ~IsNaN(result_df.rows[i]["headline"])
OneChart(g) == Cardinality({result_df.rows[i]["plot_num"] : i \in RowsOf(g)}) = 1

\* a value, rounded, differs from a headline; a missing headline equals no number
Differs(r) == IsNaN(r["headline"]) \/ Round(Val(r["value"])) # Val(r["headline"])

Reported(g) == \E q \in Ran(Val(report)) : Group(q) = g
Chosen(g) == {k \in 1..Len(Val(last_entries).rows) : Group(Val(last_entries).rows[k]) = g}

\* C1: after validate has run, a (region, plot_name) group with at least one
\* non-missing value is in the mismatch report if and only if the value of its
\* current sample (its chronologically last row with a value), rounded to the
\* nearest integer, differs from the headline.
C1_ReportedIffRoundedDiffers ==
    Validated =>
        \A g \in ValuedGroups :
           \E c \in Latest(g) : Reported(g) <=> Differs(result_df.rows[c])

\* C1 (amended): after validate has run, a group is in the mismatch report if and
\* only if it has a row with no missing field and the value of the last such row
\* in table order, rounded to the nearest integer, differs from that row's
\* headline: 12.4 against 12 is not reported, 12.6 against 12 is; a group whose
\* headline is missing is not reported; and for a group with a numeric headline
\* drawn from one chart that row is the chronologically last row with a value.
C1_ReportedIffLastCompleteDiffers ==
    Validated =>
        /\ \A g \in AllGroups :
              /\ Reported(g) <=>
                    /\ CompleteRows(g) # {}
                    /\ Round(Val(result_df.rows[LastComplete(g)]["value"]))
                          # Val(result_df.rows[LastComplete(g)]["headline"])
              /\ CompleteRows(g) # {} =>
                    LET r == result_df.rows[LastComplete(g)]
                    IN  /\ (r["value"] = Some(124) /\ r["headline"] = Some(120)) => ~Reported(g)
                        /\ (r["value"] = Some(126) /\ r["headline"] = Some(120)) => Reported(g)
              /\ ~NumericGroup(g) /\ OneChart(g) => ~Reported(g)
        /\ \A g \in ValuedGroups :
              (NumericGroup(g) /\ OneChart(g)) =>
                 \E c \in Latest(g) : Reported(g) <=> Differs(result_df.rows[c])

\* One group whose last sample 12.6 is reported against the headline 12, another
\* with samples and a sentinel headline that is not reported.
C1_Witness ==
    /\ Validated
    /\ \E g, h \in ValuedGroups :
          /\ CompleteRows(g) # {}
          /\ result_df.rows[LastComplete(g)]["value"] = Some(126)
          /\ result_df.rows[LastComplete(g)]["headline"] = Some(120)
          /\ Reported(g)
          /\ ~NumericGroup(h) /\ ~Reported(h)

\* C2: the sample validate chooses for a group is the chronologically last of the
\* group's rows whose value is not missing: every group with such a row has
\* exactly one chosen row, and it is one of greatest date among those rows.
C2_CurrentIsLatestValued ==
    Validated =>
        \A g \in ValuedGroups :
           /\ Cardinality(Chosen(g)) = 1
           /\ \E c \in Latest(g) : \A k \in Chosen(g) : Val(last_entries).rows[k] = result_df.rows[c]

\* C2 (amended): the sample validate chooses for a group is the last row in table
\* order among the group's rows with no missing field at all (a missing headline,
\* as a sentinel headline becomes, drops the row like a missing value does); a
\* group with no such row has no current sample; for a group with a numeric
\* headline drawn from one chart the chosen row is the chronologically last row
\* with a value.
C2_CurrentIsLastCompleteRow ==
    Validated =>
        /\ \A g \in AllGroups :
              IF CompleteRows(g) = {} THEN Chosen(g) = {}
              ELSE /\ Cardinality(Chosen(g)) = 1
                   /\ \A k \in Chosen(g) :
                         Val(last_entries).rows[k] = result_df.rows[LastComplete(g)]
        /\ \A g \in ValuedGroups :
              (NumericGroup(g) /\ OneChart(g)) => LastComplete(g) \in Latest(g)

\* A group spread over two charts whose last complete row in table order is not
\* its chronologically last, and a chart whose last row has no value.
C2_Witness ==
    /\ Validated
    /\ \E g \in ValuedGroups :
          /\ CompleteRows(g) # {}
          /\ LastComplete(g) \notin Latest(g)
          /\ Chosen(g) # {}
    /\ \E i \in RowIds : IsNaN(result_df.rows[i]["value"]) /\ ~IsNaN(result_df.rows[i]["date"])

\* ---------------------------------------------------------------------- C5
\* C5: a knit run that got as far as validate is not aborted by it: unmatched
\* rows and mismatches end in a printed report, not in an error.
C5_ValidateNeverRaises ==
    (cmd = "knit" /\ final_file # NoFile /\ pc \in {"done", "aborted"}) =>
        pc = "done" /\ error = "" /\ ~IsNaN(report)

\* ---------------------------------------------------------------------- C6
PastSelect == {"write_final", "validate", "done", "aborted"}

RECURSIVE Offset(_)
Offset(i) == IF i = 1 THEN 0 ELSE Offset(i - 1) + Len(dfs[i - 1].rows)

====
